---- MODULE Spec2Model ----
(***************************************************************************)
(* keri-governance: the framework resolver (resolver.py) and governance    *)
(* evolution (evolution.py) as a state machine, and the constraint         *)
(* primitives (primitives.py) with the cardinal rules engine (cardinal.py) *)
(* as a second one.                                                        *)
(*                                                                         *)
(* A SAID is a sequence: <<>> stands for "no SAID" (Python None or "",     *)
(* both falsy), <<"A">> is a SAID named by a caller or a credential        *)
(* store, and <<"E", ...content...>> is the digest the default credential  *)
(* factory computes over a credential's content.                           *)
(* An AID is a string; "" stands for "no AID" (None or "", both falsy).    *)
(***************************************************************************)
EXTENDS Integers, Sequences, FiniteSets, TLC

VARIABLES
    resolve_fn,      \* FrameworkResolver._resolve_fn is not None
    store,           \* what the fetch callback returns for each SAID
    cache,           \* FrameworkResolver._cache : SAID -> GovernanceFramework
    superseded_by,   \* FrameworkResolver._superseded_by : old SAID -> new SAID
    resolved,        \* history: the framework the first successful resolve(s)
                     \* returned, for each s, since the last clear_cache
    calls,           \* history: number of calls made so far
    last,            \* the last call made, and what it returned
    ruleset,         \* CardinalRuleSet._rules : (artifact type, operation) -> rule
                     \* (for the constraint checker: the framework's rule list)
    checked,         \* the last call made on the primitives, the cardinal
                     \* rules engine or the constraint checker, and what
                     \* it returned
    callers          \* the callers inside an evolution call at the same
                     \* time: each one's position and local values

vars ==
    <<resolve_fn, store, cache, superseded_by, resolved, calls, last, ruleset,
      checked, callers>>

----------------------------------------------------------------------------
(* Bounds of the model *)

\* calls made on the resolver and the evolution engine per behaviour
MaxCalls == 2

----------------------------------------------------------------------------
(* Values *)

NoSaid == <<>>
SaidA == <<"A">>
SaidB == <<"B">>
SaidC == <<"C">>
NamedSaids == {SaidA, SaidB, SaidC}

NoAid == ""
Aids == {"s1", "s2"}

\* semantic versions are character strings
V100 == <<"1", ".", "0", ".", "0">>

\* Optional arguments: Python None or a value
None(dflt) == [some |-> FALSE, val |-> dflt]
Some(v) == [some |-> TRUE, val |-> v]

\* GovernanceFramework (with its FrameworkVersion flattened: supersedes is
\* version_info.supersedes_said, version is version_info.version; the raw
\* credential adds evolution_mode and the ratification edge)
Framework(said, name, version, steward, supersedes, rules, matrix, authorities, mode, ratification) ==
    [said |-> said, name |-> name, version |-> version, steward |-> steward,
     supersedes |-> supersedes, rules |-> rules, credential_matrix |-> matrix,
     authorities |-> authorities, evolution_mode |-> mode,
     ratification |-> ratification]

\* "no framework" (Python None)
NoFw == Framework(NoSaid, "", <<>>, NoAid, NoSaid, <<>>, <<>>, <<>>, "", NoSaid)

\* a root or successor framework with the default content
Rules1 == <<<<"obj", "r1">>>>
Matrix1 == <<<<"obj", "m1">>>>
Auth1 == <<"auth1">>
Fw(said, steward, supersedes) ==
    Framework(said, "n1", V100, steward, supersedes, Rules1, Matrix1, Auth1, "", NoSaid)

\* dict update: m[k] = v
Put(m, k, v) == [x \in (DOMAIN m) \cup {k} |-> IF x = k THEN v ELSE m[x]]

EmptyCache == [s \in {} |-> NoFw]
EmptyIndex == [s \in {} |-> NoSaid]

----------------------------------------------------------------------------
(* The fetch callback *)

\* What the callback does for one SAID: returns None, raises, or returns a
\* value.  A value is a dict or not, may carry a .data and a .raw attribute
\* (each a dict or not); the dict that resolve() selects parses into `fw`, or
\* makes from_credential raise `parse`.
Outcome(kind, isdict, hasData, dataIsDict, hasRaw, rawIsDict, parse, fw) ==
    [kind |-> kind, isdict |-> isdict, hasData |-> hasData,
     dataIsDict |-> dataIsDict, hasRaw |-> hasRaw, rawIsDict |-> rawIsDict,
     parse |-> parse, fw |-> fw]

FetchNone == Outcome("none", FALSE, FALSE, FALSE, FALSE, FALSE, "ok", NoFw)
FetchRaise == Outcome("raise", FALSE, FALSE, FALSE, FALSE, FALSE, "ok", NoFw)
FetchDict(fw) == Outcome("value", TRUE, FALSE, FALSE, FALSE, FALSE, "ok", fw)
FetchNonDict == Outcome("value", FALSE, FALSE, FALSE, FALSE, FALSE, "ok", NoFw)
FetchData(fw) == Outcome("value", FALSE, TRUE, TRUE, FALSE, FALSE, "ok", fw)
FetchDataRaw(fw) == Outcome("value", FALSE, TRUE, TRUE, TRUE, FALSE, "ok", fw)
FetchBad(exc) == Outcome("value", TRUE, FALSE, FALSE, FALSE, FALSE, exc, NoFw)

\* resolve(): raw = cred_result; .data, then .raw, replace it; isinstance(raw, dict)
RawIsDict(out) ==
    IF out.hasRaw THEN out.rawIsDict
    ELSE IF out.hasData THEN out.dataIsDict
    ELSE out.isdict

\* the exceptions resolve() catches around from_credential
CaughtErrors == {"ValueError", "KeyError", "TypeError"}

\* GovernanceFramework.from_credential: the framework a credential dict
\* parses into; its said is the credential's own "d"
FromCredential(out) == out.fw

\* the callback's answer for a SAID; SAIDs the store does not hold are absent
Fetch(s) == IF s \in DOMAIN store THEN store[s] ELSE FetchNone

----------------------------------------------------------------------------
(* FrameworkResolver *)

St(c, sb) == [cache |-> c, sb |-> sb]

Ret(st, ret, fetched, raised) ==
    [st |-> st, ret |-> ret, fetched |-> fetched, raised |-> raised]

\* a resolve that returns the fetched framework without caching it
CacheFetchedForgets(st, framework_said, framework) ==
    Ret(st, framework, <<framework_said>>, FALSE)

\* resolve(), last three statements: cache the parsed framework under the
\* SAID asked for, index its supersedes edge under its own SAID
CacheFetched(st, framework_said, framework) ==
    Ret(St(Put(st.cache, framework_said, framework),
           IF framework.supersedes # NoSaid
           THEN Put(st.sb, framework.supersedes, framework.said)
           ELSE st.sb),
        framework, <<framework_said>>, FALSE)

\* a resolve that remembers a failed lookup in the cache
ResolveFetchedRemembers(st, s, out) ==
    IF out.kind = "raise" THEN Ret(st, NoFw, <<s>>, TRUE)
    ELSE IF out.kind = "none" \/ ~RawIsDict(out) \/ out.parse \in CaughtErrors
    THEN Ret(St(Put(st.cache, s, NoFw), st.sb), NoFw, <<s>>, FALSE)
    ELSE IF out.parse # "ok" THEN Ret(st, NoFw, <<s>>, TRUE)
    ELSE CacheFetched(st, s, FromCredential(out))

\* resolve(), from the callback's answer on
ResolveFetched(st, s, out) ==
    IF out.kind = "raise" THEN Ret(st, NoFw, <<s>>, TRUE)
    ELSE IF out.kind = "none" THEN Ret(st, NoFw, <<s>>, FALSE)
    ELSE IF ~RawIsDict(out) THEN Ret(st, NoFw, <<s>>, FALSE)
    ELSE IF out.parse \in CaughtErrors THEN Ret(st, NoFw, <<s>>, FALSE)
    ELSE IF out.parse # "ok" THEN Ret(st, NoFw, <<s>>, TRUE)
    ELSE CacheFetched(st, s, FromCredential(out))

\* resolve(framework_said)
Resolve(st, s) ==
    IF s \in DOMAIN st.cache THEN Ret(st, st.cache[s], <<>>, FALSE)
    ELSE IF ~resolve_fn THEN Ret(st, NoFw, <<>>, FALSE)
    ELSE ResolveFetched(st, s, Fetch(s))

\* register(framework)
Register(st, framework) ==
    St(Put(st.cache, framework.said, framework),
       IF framework.supersedes # NoSaid
       THEN Put(st.sb, framework.supersedes, framework.said)
       ELSE st.sb)

\* a register_supersession that keeps the edge an old SAID already has
RegisterSupersessionIfAbsent(st, new_said, old_said) ==
    IF old_said \in DOMAIN st.sb THEN st
    ELSE St(st.cache, Put(st.sb, old_said, new_said))

\* register_supersession(new_said, old_said)
RegisterSupersession(st, new_said, old_said) ==
    St(st.cache, Put(st.sb, old_said, new_said))

\* clear_cache()
ClearCache(st) == St(EmptyCache, EmptyIndex)

Walk(st, list, seen, fetched, raised, diverged) ==
    [st |-> st, list |-> list, seen |-> seen, fetched |-> fetched,
     raised |-> raised, diverged |-> diverged]

RECURSIVE BackwardWalk(_, _, _, _, _)
\* resolve_chain, backward loop body: prior = self.resolve(current.supersedes)
BackwardStep(prior, seen, ancestors, fetched) ==
    IF prior.raised
    THEN Walk(prior.st, ancestors, seen, fetched \o prior.fetched, TRUE, FALSE)
    ELSE IF prior.ret = NoFw \/ prior.ret.said \in seen
    THEN Walk(prior.st, ancestors, seen, fetched \o prior.fetched, FALSE, FALSE)
    ELSE BackwardWalk(prior.st, prior.ret, seen \cup {prior.ret.said},
                      Append(ancestors, prior.ret), fetched \o prior.fetched)

\* resolve_chain, backward loop: while current.supersedes
BackwardWalk(st, current, seen, ancestors, fetched) ==
    IF current.supersedes = NoSaid
    THEN Walk(st, ancestors, seen, fetched, FALSE, FALSE)
    ELSE BackwardStep(Resolve(st, current.supersedes), seen, ancestors, fetched)

RECURSIVE ForwardWalk(_, _, _, _, _, _)
\* resolve_chain, forward loop body: newer = self.resolve(next_said)
ForwardStep(newer, seen, descendants, fetched, visited) ==
    IF newer.raised
    THEN Walk(newer.st, descendants, seen, fetched \o newer.fetched, TRUE, FALSE)
    ELSE IF newer.ret = NoFw
    THEN Walk(newer.st, descendants, seen, fetched \o newer.fetched, FALSE, FALSE)
    ELSE ForwardWalk(newer.st, newer.ret, seen \cup {newer.ret.said},
                     Append(descendants, newer.ret), fetched \o newer.fetched,
                     visited)

\* resolve_chain, forward loop: while current.said in self._superseded_by.
\* One pass of the loop is a function of (resolver state, current, seen), the
\* triples in `visited`: a loop that evaluates its condition on a triple it
\* has evaluated it on before runs for ever, which `diverged` reports.
ForwardWalk(st, current, seen, descendants, fetched, visited) ==
    IF [st |-> st, current |-> current, seen |-> seen] \in visited
    THEN Walk(st, descendants, seen, fetched, FALSE, TRUE)
    ELSE IF current.said \notin DOMAIN st.sb
    THEN Walk(st, descendants, seen, fetched, FALSE, FALSE)
    ELSE IF st.sb[current.said] \in seen
    THEN Walk(st, descendants, seen, fetched, FALSE, FALSE)
    ELSE ForwardStep(Resolve(st, st.sb[current.said]), seen, descendants, fetched,
                     visited \cup {[st |-> st, current |-> current, seen |-> seen]})

Reverse(s) == [i \in 1..Len(s) |-> s[Len(s) + 1 - i]]

Chain(st, versions, fetched, raised, diverged) ==
    [st |-> st, versions |-> versions, fetched |-> fetched,
     raised |-> raised, diverged |-> diverged]

\* a chain built without reversing the descendants
ChainBuildUnreversed(start, ancestors, w) ==
    IF w.raised \/ w.diverged
    THEN Chain(w.st, <<>>, w.fetched, w.raised, w.diverged)
    ELSE Chain(w.st, w.list \o <<start>> \o ancestors, w.fetched, FALSE, FALSE)

\* resolve_chain: chain = reversed(descendants) + [start] + ancestors
ChainBuild(start, ancestors, w) ==
    IF w.raised \/ w.diverged
    THEN Chain(w.st, <<>>, w.fetched, w.raised, w.diverged)
    ELSE Chain(w.st, Reverse(w.list) \o <<start>> \o ancestors, w.fetched,
               FALSE, FALSE)

\* resolve_chain, after the backward walk `b`
ChainForward(start, b) ==
    IF b.raised THEN Chain(b.st, <<>>, b.fetched, TRUE, FALSE)
    ELSE ChainBuild(start, b.list,
                    ForwardWalk(b.st, start, b.seen, <<>>, b.fetched, {}))

\* resolve_chain, after start = self.resolve(framework_said)
ChainFrom(start) ==
    IF start.raised THEN Chain(start.st, <<>>, start.fetched, TRUE, FALSE)
    ELSE IF start.ret = NoFw
    THEN Chain(start.st, <<>>, start.fetched, FALSE, FALSE)
    ELSE ChainForward(start.ret,
                      BackwardWalk(start.st, start.ret, {start.ret.said}, <<>>,
                                   start.fetched))

\* resolve_chain(framework_said): the VersionChain's versions, newest first
ResolveChain(st, s) == ChainFrom(Resolve(st, s))

\* VersionChain.saids()
Saids(versions) == [i \in 1..Len(versions) |-> versions[i].said]

\* VersionChain.active
Active(versions) == IF Len(versions) > 0 THEN versions[1] ELSE NoFw

ActiveOf(c) ==
    [st |-> c.st, ret |-> Active(c.versions), fetched |-> c.fetched,
     raised |-> c.raised, diverged |-> c.diverged]

\* resolve_active(framework_said)
ResolveActive(st, s) == ActiveOf(ResolveChain(st, s))

----------------------------------------------------------------------------
(* GovernanceEvolution *)

Digits == <<"0", "1", "2", "3", "4", "5", "6", "7", "8", "9">>
IsDigit(c) == \E i \in 1..Len(Digits) : Digits[i] = c
DigitVal(c) == (CHOOSE i \in 1..Len(Digits) : Digits[i] = c) - 1

\* str.split("."): the parts between the dots, empty parts included
FirstDot(s) ==
    CHOOSE i \in 1..Len(s) : s[i] = "." /\ \A j \in 1..(i - 1) : s[j] # "."
RECURSIVE Split(_)
Split(s) ==
    IF \A i \in 1..Len(s) : s[i] # "." THEN <<s>>
    ELSE <<SubSeq(s, 1, FirstDot(s) - 1)>>
         \o Split(SubSeq(s, FirstDot(s) + 1, Len(s)))

\* str.strip() as int() applies it, for the blank " "
RECURSIVE Strip(_)
Strip(s) ==
    IF Len(s) = 0 THEN s
    ELSE IF s[1] = " " THEN Strip(Tail(s))
    ELSE IF s[Len(s)] = " " THEN Strip(SubSeq(s, 1, Len(s) - 1))
    ELSE s

RECURSIVE DigitsVal(_)
DigitsVal(s) ==
    IF Len(s) = 0 THEN 0
    ELSE IF s[Len(s)] = "_" THEN DigitsVal(SubSeq(s, 1, Len(s) - 1))
    ELSE 10 * DigitsVal(SubSeq(s, 1, Len(s) - 1)) + DigitVal(s[Len(s)])

\* the digits of an int() literal: digits with single underscores between
WellFormed(body) ==
    /\ Len(body) > 0
    /\ IsDigit(body[1]) /\ IsDigit(body[Len(body)])
    /\ \A i \in 1..Len(body) : IsDigit(body[i]) \/ body[i] = "_"
    /\ \A i \in 1..(Len(body) - 1) : ~(body[i] = "_" /\ body[i + 1] = "_")

\* int() of a stripped text: an optional sign, then the digits
ParseSigned(t) ==
    IF Len(t) > 0 /\ t[1] \in {"+", "-"}
    THEN IF ~WellFormed(Tail(t)) THEN [ok |-> FALSE, val |-> 0]
         ELSE [ok |-> TRUE,
               val |-> IF t[1] = "-" THEN 0 - DigitsVal(Tail(t))
                       ELSE DigitsVal(Tail(t))]
    ELSE IF ~WellFormed(t) THEN [ok |-> FALSE, val |-> 0]
         ELSE [ok |-> TRUE, val |-> DigitsVal(t)]

\* int(text); a ValueError is ok = FALSE
ParseInt(text) == ParseSigned(Strip(text))

RECURSIVE NatToStr(_)
NatToStr(n) ==
    IF n < 10 THEN <<Digits[n + 1]>>
    ELSE NatToStr(n \div 10) \o <<Digits[(n % 10) + 1]>>

\* str(int)
IntToStr(n) == IF n < 0 THEN <<"-">> \o NatToStr(0 - n) ELSE NatToStr(n)

V110 == <<"1", ".", "1", ".", "0">>

\* _bump_version, the try block: int() of the three parts, then the f-string
BumpParts(major, minor, patch) ==
    IF ~(major.ok /\ minor.ok /\ patch.ok) THEN V110
    ELSE IntToStr(major.val) \o <<".">> \o IntToStr(minor.val + 1) \o <<".", "0">>

\* _bump_version, after parts = version.split(".")
BumpSplit(parts) ==
    IF Len(parts) # 3 THEN V110
    ELSE BumpParts(ParseInt(parts[1]), ParseInt(parts[2]), ParseInt(parts[3]))

\* _bump_version(version)
BumpVersion(version) == BumpSplit(Split(version))

\* ConstraintRule / CredentialMatrixEntry and their dict forms: an entry is
\* <<form, name>> with form "obj" or "dict"
ToDict(e) == <<"dict", e[2]>>
FromDict(d) == <<"obj", d[2]>>
ToDicts(es) == [i \in 1..Len(es) |-> ToDict(es[i])]
FromDicts(ds) == [i \in 1..Len(ds) |-> FromDict(ds[i])]

\* the content both modes give the new version: what goes into the
\* credential dict and into the GovernanceFramework
Content(issuer, name, version, rules, matrix, authorities, supersedes, mode, ratification) ==
    [issuer |-> issuer, name |-> name, version |-> version, rules |-> rules,
     matrix |-> matrix, authorities |-> authorities, supersedes |-> supersedes,
     mode |-> mode, ratification |-> ratification]

\* the credential dict, before its SAID is filled in
Credential(c) ==
    [i |-> c.issuer, name |-> c.name, version |-> c.version,
     rules |-> ToDicts(c.rules), credential_matrix |-> ToDicts(c.matrix),
     authorities |-> c.authorities, supersedes |-> c.supersedes,
     evolution_mode |-> c.mode, ratification |-> c.ratification]

\* _default_said(credential): a digest of the credential's whole content
DefaultSaid(c) ==
    <<"E", c.i, c.name, c.version, c.rules, c.credential_matrix,
      c.authorities, c.supersedes, c.evolution_mode, c.ratification>>

\* the credential_factory given to the constructor: the default digest, or
\* an injected callable, which returns `out`
DefaultFactory == [default |-> TRUE, out |-> NoSaid]
Injected(out) == [default |-> FALSE, out |-> out]
CredentialFactory(factory, credential) ==
    IF factory.default THEN DefaultSaid(credential) ELSE factory.out

Reason(kind, said, aid, other, text) ==
    [kind |-> kind, said |-> said, aid |-> aid, other |-> other, text |-> text]

NoReason == Reason("", NoSaid, NoAid, NoAid, "")

\* EvolutionResult, with the resolver state the call leaves
Evolved(st, success, new_framework, prior_said, mode, reason, fetched, raised) ==
    [st |-> st, success |-> success, new_framework |-> new_framework,
     prior_said |-> prior_said, mode |-> mode, reason |-> reason,
     fetched |-> fetched, raised |-> raised]

\* both modes: register the new framework, record the edge, return success
Registered(r, new_framework, current_said, mode, reason) ==
    Evolved(RegisterSupersession(Register(r.st, new_framework),
                                 new_framework.said, current_said),
            TRUE, new_framework, current_said, mode, reason, r.fetched, FALSE)

\* both modes: the GovernanceFramework object built around new_said
NewFramework(new_said, c) ==
    Framework(new_said, c.name, c.version, c.issuer, c.supersedes, c.rules,
              c.matrix, c.authorities, c.mode, c.ratification)

\* both modes: build the credential, compute its SAID, build and register
Issue(r, factory, c, reason) ==
    Registered(r, NewFramework(CredentialFactory(factory, Credential(c)), c),
               c.supersedes, IF c.mode = "B" THEN "B" ELSE "A", reason)

\* the arguments of supersede after current_said and steward_aid
NewFields(new_name, new_version, new_rules, new_matrix, new_authorities, reason) ==
    [new_name |-> new_name, new_version |-> new_version,
     new_rules |-> new_rules, new_matrix |-> new_matrix,
     new_authorities |-> new_authorities, reason |-> reason]

Inherit == NewFields(None(""), None(<<>>), None(<<>>), None(<<>>), None(<<>>), "")

\* a supersede that inherits a field when the value given for it is empty
SupersedeContentIfEmpty(current, current_said, steward_aid, new) ==
    Content(steward_aid,
            IF new.new_name.some /\ new.new_name.val # ""
            THEN new.new_name.val ELSE current.name,
            IF new.new_version.some THEN new.new_version.val
            ELSE BumpVersion(current.version),
            IF new.new_rules.some /\ new.new_rules.val # <<>>
            THEN new.new_rules.val ELSE current.rules,
            IF new.new_matrix.some /\ new.new_matrix.val # <<>>
            THEN new.new_matrix.val ELSE current.credential_matrix,
            IF new.new_authorities.some /\ new.new_authorities.val # <<>>
            THEN new.new_authorities.val ELSE current.authorities,
            current_said, "", NoSaid)

\* supersede: inherit unchanged fields, auto-bump the version
SupersedeContent(current, current_said, steward_aid, new) ==
    Content(steward_aid,
            IF new.new_name.some THEN new.new_name.val ELSE current.name,
            IF new.new_version.some THEN new.new_version.val
            ELSE BumpVersion(current.version),
            IF new.new_rules.some THEN new.new_rules.val ELSE current.rules,
            IF new.new_matrix.some THEN new.new_matrix.val
            ELSE current.credential_matrix,
            IF new.new_authorities.some THEN new.new_authorities.val
            ELSE current.authorities,
            current_said, "", NoSaid)

\* a supersede that does not compare stewards
SupersedeAnySteward(r, factory, current_said, steward_aid, new) ==
    IF r.raised
    THEN Evolved(r.st, FALSE, NoFw, NoSaid, "", NoReason, r.fetched, TRUE)
    ELSE IF r.ret = NoFw
    THEN Evolved(r.st, FALSE, NoFw, NoSaid, "A",
                 Reason("not found", current_said, NoAid, NoAid, ""),
                 r.fetched, FALSE)
    ELSE Issue(r, factory, SupersedeContent(r.ret, current_said, steward_aid, new),
               Reason("", NoSaid, NoAid, NoAid, new.reason))

\* a supersede that also refuses a current framework that is not the head
SupersedeHeadOnly(r, factory, current_said, steward_aid, new) ==
    IF r.raised
    THEN Evolved(r.st, FALSE, NoFw, NoSaid, "", NoReason, r.fetched, TRUE)
    ELSE IF r.ret = NoFw
    THEN Evolved(r.st, FALSE, NoFw, NoSaid, "A",
                 Reason("not found", current_said, NoAid, NoAid, ""),
                 r.fetched, FALSE)
    ELSE IF \/ r.ret.steward # NoAid /\ r.ret.steward # steward_aid
            \/ current_said \in DOMAIN r.st.sb
    THEN Evolved(r.st, FALSE, NoFw, current_said, "A",
                 Reason("not authorized", NoSaid, steward_aid, r.ret.steward, ""),
                 r.fetched, FALSE)
    ELSE Issue(r, factory, SupersedeContent(r.ret, current_said, steward_aid, new),
               Reason("", NoSaid, NoAid, NoAid, new.reason))

\* supersede, after current = self._resolver.resolve(current_said)
SupersedeCurrent(r, factory, current_said, steward_aid, new) ==
    IF r.raised
    THEN Evolved(r.st, FALSE, NoFw, NoSaid, "", NoReason, r.fetched, TRUE)
    ELSE IF r.ret = NoFw
    THEN Evolved(r.st, FALSE, NoFw, NoSaid, "A",
                 Reason("not found", current_said, NoAid, NoAid, ""),
                 r.fetched, FALSE)
    ELSE IF r.ret.steward # NoAid /\ r.ret.steward # steward_aid
    THEN Evolved(r.st, FALSE, NoFw, current_said, "A",
                 Reason("not authorized", NoSaid, steward_aid, r.ret.steward, ""),
                 r.fetched, FALSE)
    ELSE Issue(r, factory, SupersedeContent(r.ret, current_said, steward_aid, new),
               Reason("", NoSaid, NoAid, NoAid, new.reason))

\* supersede(current_said, steward_aid, new_name, ..., reason)
Supersede(st, factory, current_said, steward_aid, new) ==
    SupersedeCurrent(Resolve(st, current_said), factory, current_said,
                     steward_aid, new)

\* ratification_data: proposer_aid is "" when the key is missing or empty;
\* the proposed_* keys are present (some) or not
Ratification(proposer_aid, proposed_name, proposed_version, proposed_rules, proposed_matrix, proposed_authorities) ==
    [proposer_aid |-> proposer_aid, proposed_name |-> proposed_name,
     proposed_version |-> proposed_version, proposed_rules |-> proposed_rules,
     proposed_matrix |-> proposed_matrix,
     proposed_authorities |-> proposed_authorities]

Proposer(aid) == Ratification(aid, None(""), None(<<>>), None(<<>>), None(<<>>), None(<<>>))

\* evolve_from_ratification: parse the proposal, inherit unchanged fields
RatifiedContent(current, current_said, ratification_said, data) ==
    Content(data.proposer_aid,
            IF data.proposed_name.some THEN data.proposed_name.val
            ELSE current.name,
            IF data.proposed_version.some THEN data.proposed_version.val
            ELSE BumpVersion(current.version),
            IF data.proposed_rules.some THEN FromDicts(data.proposed_rules.val)
            ELSE current.rules,
            IF data.proposed_matrix.some THEN FromDicts(data.proposed_matrix.val)
            ELSE current.credential_matrix,
            IF data.proposed_authorities.some THEN data.proposed_authorities.val
            ELSE current.authorities,
            current_said, "B", ratification_said)

\* an evolve_from_ratification that does not ask for proposer_aid
EvolveAnyProposer(r, factory, current_said, ratification_said, data) ==
    IF r.raised
    THEN Evolved(r.st, FALSE, NoFw, NoSaid, "", NoReason, r.fetched, TRUE)
    ELSE IF r.ret = NoFw
    THEN Evolved(r.st, FALSE, NoFw, NoSaid, "B",
                 Reason("not found", current_said, NoAid, NoAid, ""),
                 r.fetched, FALSE)
    ELSE Issue(r, factory,
               RatifiedContent(r.ret, current_said, ratification_said, data),
               Reason("ratified", ratification_said, NoAid, NoAid, ""))

\* an evolve_from_ratification that compares the proposer with the steward
EvolveStewardOnly(r, factory, current_said, ratification_said, data) ==
    IF r.raised
    THEN Evolved(r.st, FALSE, NoFw, NoSaid, "", NoReason, r.fetched, TRUE)
    ELSE IF r.ret = NoFw
    THEN Evolved(r.st, FALSE, NoFw, NoSaid, "B",
                 Reason("not found", current_said, NoAid, NoAid, ""),
                 r.fetched, FALSE)
    ELSE IF data.proposer_aid = NoAid
    THEN Evolved(r.st, FALSE, NoFw, current_said, "B",
                 Reason("missing", NoSaid, NoAid, NoAid, "proposer_aid"),
                 r.fetched, FALSE)
    ELSE IF r.ret.steward # NoAid /\ r.ret.steward # data.proposer_aid
    THEN Evolved(r.st, FALSE, NoFw, current_said, "B",
                 Reason("not authorized", NoSaid, data.proposer_aid,
                        r.ret.steward, ""),
                 r.fetched, FALSE)
    ELSE Issue(r, factory,
               RatifiedContent(r.ret, current_said, ratification_said, data),
               Reason("ratified", ratification_said, NoAid, NoAid, ""))

\* evolve_from_ratification, after current = self._resolver.resolve(current_said)
EvolveCurrent(r, factory, current_said, ratification_said, data) ==
    IF r.raised
    THEN Evolved(r.st, FALSE, NoFw, NoSaid, "", NoReason, r.fetched, TRUE)
    ELSE IF r.ret = NoFw
    THEN Evolved(r.st, FALSE, NoFw, NoSaid, "B",
                 Reason("not found", current_said, NoAid, NoAid, ""),
                 r.fetched, FALSE)
    ELSE IF data.proposer_aid = NoAid
    THEN Evolved(r.st, FALSE, NoFw, current_said, "B",
                 Reason("missing", NoSaid, NoAid, NoAid, "proposer_aid"),
                 r.fetched, FALSE)
    ELSE Issue(r, factory,
               RatifiedContent(r.ret, current_said, ratification_said, data),
               Reason("ratified", ratification_said, NoAid, NoAid, ""))

\* evolve_from_ratification(current_said, ratification_said, ratification_data)
EvolveFromRatification(st, factory, current_said, ratification_said, data) ==
    EvolveCurrent(Resolve(st, current_said), factory, current_said,
                  ratification_said, data)

----------------------------------------------------------------------------
(* Constraint primitives and the cardinal rules engine *)

\* class EdgeOperator: the members, by value
EdgeOperator == {"I2I", "DI2I", "NI2I", "ANY"}

\* class StrengthLevel(IntEnum): member name -> value; a level is its value
StrengthLevel == [ANY |-> 0, SAID_ONLY |-> 1, KEL_ANCHORED |-> 2, TEL_ANCHORED |-> 3]

StrengthLevels == {StrengthLevel[n] : n \in DOMAIN StrengthLevel}

\* level.name
StrengthLevelName(level) == CHOOSE n \in DOMAIN StrengthLevel : StrengthLevel[n] = level

OPERATOR_STRENGTH == [ANY |-> 0, NI2I |-> 1, DI2I |-> 2, I2I |-> 3]

\* the comparison the mutant of operator_satisfies makes
operator_exceeds(actual, required) ==
    OPERATOR_STRENGTH[actual] > OPERATOR_STRENGTH[required]

operator_satisfies(actual, required) ==
    OPERATOR_STRENGTH[actual] >= OPERATOR_STRENGTH[required]

\* the comparison the mutant of strength_satisfies makes
strength_equals(actual, required) == actual = required

strength_satisfies(actual, required) == actual >= required

\* class ArtifactType and class Operation: the members, by value
ArtifactType == {"alg", "sch", "pro", "pkg", "run"}

Operation == {"register", "rotate", "deprecate", "revoke", "verify", "resolve", "execute"}

\* CardinalRule(artifact_type, operation, min_strength), rationale defaulted
CardinalRule(artifact_type, operation, min_strength) ==
    [artifact_type |-> artifact_type, operation |-> operation,
     min_strength |-> min_strength, rationale |-> ""]

\* Optional[CardinalRule]: <<>> is None, <<rule>> a rule
NoRule == <<>>

CardinalCheckResult(allowed, rule, actual_strength, message) ==
    [allowed |-> allowed, rule |-> rule, actual_strength |-> actual_strength,
     message |-> message]

\* CardinalRuleSet(): no rules
NoRules == [k \in {} |-> <<>>]

\* CardinalRuleSet.all_rules, the order left out
AllRules(rules) == {rules[k] : k \in DOMAIN rules}

\* what the mutant of add does: the first rule of a pair stays
AddIfAbsent(rules, rule) ==
    IF <<rule.artifact_type, rule.operation>> \in DOMAIN rules
    THEN rules
    ELSE Put(rules, <<rule.artifact_type, rule.operation>>, rule)

\* CardinalRuleSet.add
Add(rules, rule) == Put(rules, <<rule.artifact_type, rule.operation>>, rule)

\* CardinalRuleSet.get
Get(rules, artifact_type, operation) ==
    IF <<artifact_type, operation>> \in DOMAIN rules
    THEN <<rules[<<artifact_type, operation>>]>>
    ELSE NoRule

\* CardinalRuleSet.__len__
Len_(rules) == Cardinality(DOMAIN rules)

\* the result the mutant of CheckRule gives: a rule is met only above its
\* minimum
CheckRuleAboveMinimum(rule, artifact_type, operation, actual_strength) ==
    IF rule = NoRule
    THEN CardinalCheckResult(TRUE, NoRule, actual_strength,
            <<"No cardinal rule for", artifact_type, ":", operation>>)
    ELSE IF actual_strength > rule[1].min_strength
    THEN CardinalCheckResult(TRUE, rule, actual_strength,
            <<operation, "on", artifact_type, ":",
              StrengthLevelName(actual_strength), "meets",
              StrengthLevelName(rule[1].min_strength)>>)
    ELSE CardinalCheckResult(FALSE, rule, actual_strength,
            <<operation, "on", artifact_type, "requires",
              StrengthLevelName(rule[1].min_strength), "but has",
              StrengthLevelName(actual_strength)>>)

\* the result of check for the rule it looked up; a message is the sequence
\* of the pieces the f-string puts together
CheckRule(rule, artifact_type, operation, actual_strength) ==
    IF rule = NoRule
    THEN CardinalCheckResult(TRUE, NoRule, actual_strength,
            <<"No cardinal rule for", artifact_type, ":", operation>>)
    ELSE IF strength_satisfies(actual_strength, rule[1].min_strength)
    THEN CardinalCheckResult(TRUE, rule, actual_strength,
            <<operation, "on", artifact_type, ":",
              StrengthLevelName(actual_strength), "meets",
              StrengthLevelName(rule[1].min_strength)>>)
    ELSE CardinalCheckResult(FALSE, rule, actual_strength,
            <<operation, "on", artifact_type, "requires",
              StrengthLevelName(rule[1].min_strength), "but has",
              StrengthLevelName(actual_strength)>>)

\* CardinalChecker.check
Check(rules, artifact_type, operation, actual_strength) ==
    CheckRule(Get(rules, artifact_type, operation),
              artifact_type, operation, actual_strength)

\* _alg_rules()
alg_rules ==
    <<
      CardinalRule("alg", "register", StrengthLevel.TEL_ANCHORED),
      CardinalRule("alg", "rotate", StrengthLevel.KEL_ANCHORED),
      CardinalRule("alg", "deprecate", StrengthLevel.KEL_ANCHORED),
      CardinalRule("alg", "revoke", StrengthLevel.TEL_ANCHORED),
      CardinalRule("alg", "verify", StrengthLevel.SAID_ONLY),
      CardinalRule("alg", "resolve", StrengthLevel.ANY),
      CardinalRule("alg", "execute", StrengthLevel.SAID_ONLY)
    >>

\* _sch_rules()
sch_rules ==
    <<
      CardinalRule("sch", "register", StrengthLevel.TEL_ANCHORED),
      CardinalRule("sch", "rotate", StrengthLevel.TEL_ANCHORED),
      CardinalRule("sch", "deprecate", StrengthLevel.KEL_ANCHORED),
      CardinalRule("sch", "revoke", StrengthLevel.TEL_ANCHORED),
      CardinalRule("sch", "verify", StrengthLevel.SAID_ONLY),
      CardinalRule("sch", "resolve", StrengthLevel.ANY)
    >>

\* _pro_rules()
pro_rules ==
    <<
      CardinalRule("pro", "register", StrengthLevel.TEL_ANCHORED),
      CardinalRule("pro", "rotate", StrengthLevel.KEL_ANCHORED),
      CardinalRule("pro", "deprecate", StrengthLevel.KEL_ANCHORED),
      CardinalRule("pro", "revoke", StrengthLevel.TEL_ANCHORED),
      CardinalRule("pro", "verify", StrengthLevel.SAID_ONLY),
      CardinalRule("pro", "resolve", StrengthLevel.ANY)
    >>

\* _pkg_rules()
pkg_rules ==
    <<
      CardinalRule("pkg", "register", StrengthLevel.TEL_ANCHORED),
      CardinalRule("pkg", "rotate", StrengthLevel.TEL_ANCHORED),
      CardinalRule("pkg", "deprecate", StrengthLevel.KEL_ANCHORED),
      CardinalRule("pkg", "revoke", StrengthLevel.TEL_ANCHORED),
      CardinalRule("pkg", "verify", StrengthLevel.SAID_ONLY),
      CardinalRule("pkg", "resolve", StrengthLevel.ANY),
      CardinalRule("pkg", "execute", StrengthLevel.KEL_ANCHORED)
    >>

\* the list the mutant of run_rules gives: verification of a runtime asks
\* for nothing
run_rules_lax ==
    <<
      CardinalRule("run", "register", StrengthLevel.TEL_ANCHORED),
      CardinalRule("run", "rotate", StrengthLevel.KEL_ANCHORED),
      CardinalRule("run", "deprecate", StrengthLevel.KEL_ANCHORED),
      CardinalRule("run", "revoke", StrengthLevel.TEL_ANCHORED),
      CardinalRule("run", "verify", StrengthLevel.ANY),
      CardinalRule("run", "resolve", StrengthLevel.ANY),
      CardinalRule("run", "execute", StrengthLevel.KEL_ANCHORED)
    >>

\* _run_rules()
run_rules ==
    <<
      CardinalRule("run", "register", StrengthLevel.TEL_ANCHORED),
      CardinalRule("run", "rotate", StrengthLevel.KEL_ANCHORED),
      CardinalRule("run", "deprecate", StrengthLevel.KEL_ANCHORED),
      CardinalRule("run", "revoke", StrengthLevel.TEL_ANCHORED),
      CardinalRule("run", "verify", StrengthLevel.SAID_ONLY),
      CardinalRule("run", "resolve", StrengthLevel.ANY),
      CardinalRule("run", "execute", StrengthLevel.KEL_ANCHORED)
    >>

\* CardinalRuleSet(rules): the rules added in list order
RECURSIVE AddAll(_, _)
AddAll(rules, list) ==
    IF list = <<>> THEN rules
    ELSE AddAll(Add(rules, Head(list)), Tail(list))

default_cardinal_rules ==
    AddAll(NoRules, alg_rules \o sch_rules \o pro_rules \o pkg_rules \o run_rules)

\* ConstraintRule: the fields the checker reads; a field constraint is
\* named by the attribute it asks the edge's context to carry
ConstraintRule(name, applies_to, required_operator, field_constraints, max_delegation_depth, enforcement) ==
    [name |-> name, applies_to |-> applies_to,
     required_operator |-> required_operator,
     field_constraints |-> field_constraints,
     max_delegation_depth |-> max_delegation_depth,
     enforcement |-> enforcement]

\* the edge-evaluation context: edge type, declared operator, the attributes
\* the field constraints are evaluated against, optional chain depth
EdgeContext(edge_type, operator, attributes, depth) ==
    [edge_type |-> edge_type, operator |-> operator,
     attributes |-> attributes, depth |-> depth]

\* step 1: the rule is selected for the edge type (exact match)
AppliesTo(rule, context) == rule.applies_to = context.edge_type

\* step 2b: a set maximum needs a supplied depth that does not exceed it
DepthHolds(rule, context) ==
    rule.max_delegation_depth.some
        => /\ context.depth.some
           /\ context.depth.val <= rule.max_delegation_depth.val

\* step 2c: every field constraint evaluates true against the context
FieldsHold(rule, context) == rule.field_constraints \subseteq context.attributes

\* step 3: a rule fails if any of (a)-(c) fails
RuleFails(rule, context) ==
    \/ ~operator_satisfies(context.operator, rule.required_operator)
    \/ ~DepthHolds(rule, context)
    \/ ~FieldsHold(rule, context)

ConstraintViolation(rule) == [rule |-> rule.name, enforcement |-> rule.enforcement]

CheckResult(allowed, violations) == [allowed |-> allowed, violations |-> violations]

\* what the mutant of Denies does: every failing rule denies
DeniesWhatever(rule) == TRUE

\* step 3: only a failing STRICT rule makes the check allowed = false
Denies(rule) == rule.enforcement = "STRICT"

\* steps 2-3 for one rule, added to the result so far
CheckOne(result, rule, context) ==
    IF AppliesTo(rule, context) /\ RuleFails(rule, context)
    THEN CheckResult(result.allowed /\ ~Denies(rule),
                     Append(result.violations, ConstraintViolation(rule)))
    ELSE result

\* ConstraintChecker's evaluation of an edge: the rules in rule order,
\* starting from allowed with no violations (step 4)
RECURSIVE CheckEdgeFrom(_, _, _)
CheckEdgeFrom(result, rules, context) ==
    IF rules = <<>> THEN result
    ELSE CheckEdgeFrom(CheckOne(result, Head(rules), context), Tail(rules), context)

CheckEdge(rules, context) == CheckEdgeFrom(CheckResult(TRUE, <<>>), rules, context)

\* nobody is inside an evolution call
NoCallers == [p \in {} |-> <<>>]

\* no call made yet
NotChecked == [op |-> "init"]

----------------------------------------------------------------------------
(* The state machine *)

\* credential stores the fetch callback may front
StoreOf(a, b, c) ==
    [s \in NamedSaids |-> IF s = SaidA THEN a ELSE IF s = SaidB THEN b ELSE c]

\* a well-formed lineage: A, B supersedes A, C supersedes B
StoreLineage ==
    StoreOf(FetchDict(Fw(SaidA, "s1", NoSaid)), FetchDict(Fw(SaidB, "s1", SaidA)),
            FetchDict(Fw(SaidC, "s1", SaidB)))
\* cyclic supersedes edges: A supersedes A; B and C supersede each other
StoreCycle ==
    StoreOf(FetchDict(Fw(SaidA, NoAid, SaidA)), FetchDict(Fw(SaidB, "s1", SaidC)),
            FetchDict(Fw(SaidC, "s1", SaidB)))
\* credentials whose own SAID is not the SAID they are stored under: B holds
\* a credential that says A, C one that says B; A's supersedes C
StoreMismatch ==
    StoreOf(FetchDict(Fw(SaidA, "s1", SaidC)), FetchDict(Fw(SaidA, "s1", NoSaid)),
            FetchDict(Fw(SaidB, "s1", SaidA)))
\* a failing callback, a non-mapping result, an unparsable credential
StoreFaulty == StoreOf(FetchRaise, FetchNonDict, FetchBad("ValueError"))
\* results wrapped in objects with .data / .raw, and another parse error
StoreWrapped ==
    StoreOf(FetchData(Fw(SaidA, NoAid, NoSaid)), FetchDataRaw(Fw(SaidB, "s1", SaidA)),
            FetchBad("AttributeError"))
StoreEmpty == StoreOf(FetchNone, FetchNone, FetchNone)

Stores == {StoreLineage, StoreCycle, StoreMismatch, StoreFaulty, StoreWrapped}

\* frameworks callers register: the lineage, a second content for A, and a
\* version of A that closes a cycle
RegFrameworks ==
    {Fw(SaidA, "s1", NoSaid), Fw(SaidB, "s1", SaidA), Fw(SaidC, "s1", SaidB),
     Framework(SaidA, "n2", V100, NoAid, NoSaid, Rules1, Matrix1, Auth1, "", NoSaid),
     Fw(SaidA, "s1", SaidC)}

\* edges callers record by hand
RegEdges == {<<SaidC, SaidA>>, <<SaidA, SaidC>>, <<SaidA, SaidA>>, <<SaidB, SaidA>>}

\* argument sets of the evolution calls
Renamed == NewFields(Some("n2"), None(<<>>), None(<<>>), None(<<>>), None(<<>>), "")
SaidR == <<"R">>

Now == St(cache, superseded_by)

\* SAIDs a caller may ask about
KnownSaids == NamedSaids \cup DOMAIN cache

\* a call: its name, its SAID argument, its AID argument (steward_aid or
\* proposer_aid), how it ended, the frameworks it returned, the SAIDs it
\* fetched, and an EvolutionResult's mode and kind of reason
\* For an evolution call there are also the EvolutionResult's prior_said and
\* reason, and the call's other arguments as `input`. `repeats` says that the
\* call before it was the same call with the same arguments.
Call(op, arg, aid, status, ret, fetched, mode, note) ==
    [op |-> op, arg |-> arg, aid |-> aid, status |-> status, ret |-> ret,
     fetched |-> fetched, mode |-> mode, note |-> note,
     prior |-> NoSaid, reason |-> NoReason, input |-> <<>>, repeats |-> FALSE]

Status(raised, diverged, found) ==
    IF diverged THEN "diverged" ELSE IF raised THEN "raised"
    ELSE IF found THEN "ok" ELSE "none"

One(framework) == IF framework = NoFw THEN <<>> ELSE <<framework>>

NoneResolved == [s \in {} |-> [fw |-> NoFw, again |-> FALSE]]

\* a call that does not return leaves its caller waiting for ever
CanCall == last.status # "diverged" /\ calls < MaxCalls

Init ==
    /\ \/ resolve_fn = TRUE /\ store \in Stores
       \/ resolve_fn = FALSE /\ store = StoreEmpty
    /\ cache = EmptyCache
    /\ superseded_by = EmptyIndex
    /\ resolved = NoneResolved
    /\ calls = 0
    /\ last = Call("init", NoSaid, NoAid, "", <<>>, <<>>, "", "")
    /\ ruleset = NoRules
    /\ checked = NotChecked
    /\ callers = NoCallers

\* the call repeats the last one
Repeats(call) ==
    /\ last.op = call.op /\ last.arg = call.arg /\ last.aid = call.aid
    /\ last.input = call.input

\* the resolver after a call, and the record of the call
Called(st, call) ==
    /\ CanCall
    /\ cache' = st.cache
    /\ superseded_by' = st.sb
    /\ calls' = calls + 1
    /\ last' = [call EXCEPT !.repeats = Repeats(call)]
    /\ UNCHANGED <<resolve_fn, store, ruleset, checked, callers>>

Remember(s, r) ==
    IF r.raised \/ r.ret = NoFw THEN resolved
    ELSE IF s \in DOMAIN resolved
    THEN Put(resolved, s, [fw |-> resolved[s].fw, again |-> TRUE])
    ELSE Put(resolved, s, [fw |-> r.ret, again |-> FALSE])

Resolved(s, r) ==
    /\ Called(r.st, Call("resolve", s, NoAid, Status(r.raised, FALSE, r.ret # NoFw),
                         One(r.ret), r.fetched, "", ""))
    /\ resolved' = Remember(s, r)

DoResolve(s) == Resolved(s, Resolve(Now, s))

Chained(s, c) ==
    /\ Called(c.st, Call("resolve_chain", s, NoAid,
                         Status(c.raised, c.diverged, Len(c.versions) > 0),
                         c.versions, c.fetched, "", ""))
    /\ UNCHANGED resolved

DoResolveChain(s) == Chained(s, ResolveChain(Now, s))

Activated(s, a) ==
    /\ Called(a.st, Call("resolve_active", s, NoAid,
                         Status(a.raised, a.diverged, a.ret # NoFw),
                         One(a.ret), a.fetched, "", ""))
    /\ UNCHANGED resolved

DoResolveActive(s) == Activated(s, ResolveActive(Now, s))

DoRegister(framework) ==
    /\ Called(Register(Now, framework),
              Call("register", framework.said, NoAid, "ok", <<framework>>, <<>>, "", ""))
    /\ UNCHANGED resolved

DoRegisterSupersession(new_said, old_said) ==
    /\ Called(RegisterSupersession(Now, new_said, old_said),
              Call("register_supersession", old_said, NoAid, "ok", <<>>, <<>>, "", ""))
    /\ UNCHANGED resolved

DoClearCache ==
    /\ Called(ClearCache(Now), Call("clear_cache", NoSaid, NoAid, "ok", <<>>, <<>>, "", ""))
    /\ resolved' = NoneResolved

EvolutionCall(op, current_said, aid, input, e) ==
    [Call(op, current_said, aid,
          IF e.raised THEN "raised" ELSE IF e.success THEN "ok" ELSE "failed",
          One(e.new_framework), e.fetched, e.mode, e.reason.kind)
     EXCEPT !.prior = e.prior_said, !.reason = e.reason, !.input = input]

EvolutionCalled(op, current_said, aid, input, e) ==
    /\ Called(e.st, EvolutionCall(op, current_said, aid, input, e))
    /\ UNCHANGED resolved

DoSupersede(factory, current_said, steward_aid, new) ==
    EvolutionCalled("supersede", current_said, steward_aid,
                    [factory |-> factory, new |-> new],
                    Supersede(Now, factory, current_said, steward_aid, new))

DoEvolveFromRatification(factory, current_said, ratification_said, data) ==
    EvolutionCalled("evolve_from_ratification", current_said, data.proposer_aid,
                    [factory |-> factory, ratification_said |-> ratification_said,
                     data |-> data],
                    EvolveFromRatification(Now, factory, current_said,
                                           ratification_said, data))

Next ==
    \/ \E s \in KnownSaids : DoResolve(s)
    \/ \E s \in KnownSaids : DoResolveChain(s)
    \/ \E s \in KnownSaids : DoResolveActive(s)
    \/ \E framework \in RegFrameworks : DoRegister(framework)
    \/ \E e \in RegEdges : DoRegisterSupersession(e[1], e[2])
    \/ DoClearCache
    \/ \E s \in KnownSaids, a \in Aids : DoSupersede(DefaultFactory, s, a, Inherit)
    \/ \E s \in KnownSaids : DoSupersede(Injected(SaidB), s, "s1", Renamed)
    \/ \E s \in KnownSaids : DoEvolveFromRatification(DefaultFactory, s, SaidR, Proposer("s2"))
    \/ DoEvolveFromRatification(DefaultFactory, SaidA, SaidR, Proposer(NoAid))

Spec == Init /\ [][Next]_vars

----------------------------------------------------------------------------
(* The evolution engine over one registered framework: a second state      *)
(* machine that draws the current framework and the arguments of the       *)
(* evolution calls from wider sets                                         *)

\* evolution calls per behaviour
MaxEvolutions == 1

\* version strings of current frameworks: well-formed ones, ones with other
\* than three parts, and ones whose parts are not plain numbers
CurrentVersions ==
    {V100,
     <<"1", ".", "2", ".", "3">>,
     <<"2", ".", "3", ".", "1">>,
     <<"1", ".", "9", ".", "0">>,
     <<"0", "1", ".", "2", ".", "3">>,
     <<"1", ".", "2">>,
     <<"1", ".", "2", ".", "3", ".", "4">>,
     <<>>,
     <<"a", ".", "b", ".", "c">>,
     <<"1", ".", ".", "3">>,
     <<"1", ".", "2", ".", "x">>,
     <<" ", "1", ".", "2", " ", ".", "3">>,
     <<"1", "_", "0", ".", "2", ".", "3">>,
     <<"+", "1", ".", "2", ".", "3">>,
     <<"1", ".", "-", "1", ".", "0">>}

Rules2 == <<<<"obj", "r2">>>>
Matrix2 == <<<<"obj", "m2">>>>
Auth2 == <<"auth2">>
V200 == <<"2", ".", "0", ".", "0">>

\* the framework registered before the evolution calls
CurrentFrameworks ==
    {Framework(SaidA, "n1", v, "s1", NoSaid, Rules1, Matrix1, Auth1, "", NoSaid) :
        v \in CurrentVersions}
    \cup {Framework(SaidA, "n1", V100, NoAid, NoSaid, Rules1, Matrix1, Auth1, "", NoSaid),
          Framework(SaidA, "", V100, "s2", NoSaid, <<>>, <<>>, <<>>, "", NoSaid)}

\* keyword arguments of supersede: nothing given, one field given (also
\* empty), everything given
NewOptions ==
    {Inherit, Renamed,
     NewFields(Some(""), None(<<>>), None(<<>>), None(<<>>), None(<<>>), ""),
     NewFields(None(""), Some(V200), None(<<>>), None(<<>>), None(<<>>), ""),
     NewFields(None(""), None(<<>>), Some(Rules2), None(<<>>), None(<<>>), ""),
     NewFields(None(""), None(<<>>), Some(<<>>), None(<<>>), None(<<>>), ""),
     NewFields(None(""), None(<<>>), None(<<>>), Some(<<>>), None(<<>>), ""),
     NewFields(None(""), None(<<>>), None(<<>>), None(<<>>), Some(<<>>), ""),
     NewFields(Some("n2"), Some(V200), Some(Rules2), Some(Matrix2), Some(Auth2), "why")}

\* ratification_data: the same choices, as the mapping carries them
DataOptions(aid) ==
    {Proposer(aid),
     Ratification(aid, Some("n2"), None(<<>>), None(<<>>), None(<<>>), None(<<>>)),
     Ratification(aid, Some(""), None(<<>>), None(<<>>), None(<<>>), None(<<>>)),
     Ratification(aid, None(""), Some(V200), None(<<>>), None(<<>>), None(<<>>)),
     Ratification(aid, None(""), None(<<>>), Some(ToDicts(Rules2)), None(<<>>), None(<<>>)),
     Ratification(aid, None(""), None(<<>>), Some(<<>>), None(<<>>), None(<<>>)),
     Ratification(aid, None(""), None(<<>>), None(<<>>), Some(<<>>), None(<<>>)),
     Ratification(aid, None(""), None(<<>>), None(<<>>), None(<<>>), Some(<<>>)),
     Ratification(aid, Some("n2"), Some(V200), Some(ToDicts(Rules2)),
                  Some(ToDicts(Matrix2)), Some(Auth2))}

\* a resolver without a fetch callback, after register(framework)
Registering(framework, st) ==
    /\ resolve_fn = FALSE
    /\ store = StoreEmpty
    /\ cache = st.cache
    /\ superseded_by = st.sb
    /\ resolved = NoneResolved
    /\ calls = 0
    /\ last = Call("register", framework.said, NoAid, "ok", <<framework>>, <<>>, "", "")
    /\ ruleset = NoRules
    /\ checked = NotChecked
    /\ callers = NoCallers

EvolutionInit ==
    \E framework \in CurrentFrameworks :
        Registering(framework, Register(St(EmptyCache, EmptyIndex), framework))

CanEvolve == calls < MaxEvolutions

EvolutionNext ==
    \/ \E a \in Aids, new \in NewOptions :
        CanEvolve /\ DoSupersede(DefaultFactory, SaidA, a, new)
    \/ \E a \in Aids :
        CanEvolve /\ DoSupersede(DefaultFactory, SaidB, a, Inherit)
    \/ \E r \in {SaidR, NoSaid}, a \in {"s2", NoAid} : \E data \in DataOptions(a) :
        CanEvolve /\ DoEvolveFromRatification(DefaultFactory, SaidA, r, data)
    \/ \E r \in {SaidR, NoSaid}, a \in {"s2", NoAid} :
        CanEvolve /\ DoEvolveFromRatification(DefaultFactory, SaidB, r, Proposer(a))

EvolutionSpec == EvolutionInit /\ [][EvolutionNext]_vars

-----------------------------------------------------------------------------
(* The cardinal rules engine alone: one rule set, filled by add calls in   *)
(* any order and number, a checker over it, and the two satisfies          *)
(* functions of the primitives                                             *)

\* the artifact types and operations the calls are made with
CalledTypes == {"alg", "sch"}

CalledOperations == {"register", "resolve"}

CardinalInit ==
    /\ resolve_fn = FALSE /\ store = StoreEmpty
    /\ cache = EmptyCache
    /\ superseded_by = EmptyIndex
    /\ resolved = NoneResolved
    /\ calls = 0
    /\ last = Call("init", NoSaid, NoAid, "", <<>>, <<>>, "", "")
    /\ ruleset = NoRules
    /\ checked = NotChecked
    /\ callers = NoCallers

DoAdd(rule) ==
    /\ ruleset' = Add(ruleset, rule)
    /\ checked' = [op |-> "add", rule |-> rule, len |-> Len_(Add(ruleset, rule)),
                   before |-> Get(ruleset, rule.artifact_type, rule.operation)]
    /\ UNCHANGED <<resolve_fn, store, cache, superseded_by, resolved, calls,
                   last, callers>>

DoCheck(artifact_type, operation, actual_strength) ==
    /\ checked' = [op |-> "check", artifact_type |-> artifact_type,
                   operation |-> operation, actual |-> actual_strength,
                   result |-> Check(ruleset, artifact_type, operation,
                                    actual_strength)]
    /\ UNCHANGED <<resolve_fn, store, cache, superseded_by, resolved, calls,
                   last, ruleset, callers>>

DoOperatorSatisfies(actual, required) ==
    /\ checked' = [op |-> "operator_satisfies", actual |-> actual,
                   required |-> required,
                   result |-> operator_satisfies(actual, required)]
    /\ UNCHANGED <<resolve_fn, store, cache, superseded_by, resolved, calls,
                   last, ruleset, callers>>

DoStrengthSatisfies(actual, required) ==
    /\ checked' = [op |-> "strength_satisfies", actual |-> actual,
                   required |-> required,
                   result |-> strength_satisfies(actual, required)]
    /\ UNCHANGED <<resolve_fn, store, cache, superseded_by, resolved, calls,
                   last, ruleset, callers>>

CardinalNext ==
    \/ \E t \in CalledTypes, o \in CalledOperations, m \in StrengthLevels :
        DoAdd(CardinalRule(t, o, m))
    \/ \E t \in CalledTypes, o \in CalledOperations, a \in StrengthLevels :
        DoCheck(t, o, a)
    \/ \E a \in EdgeOperator, r \in EdgeOperator : DoOperatorSatisfies(a, r)
    \/ \E a \in StrengthLevels, r \in StrengthLevels : DoStrengthSatisfies(a, r)

CardinalSpec == CardinalInit /\ [][CardinalNext]_vars

-----------------------------------------------------------------------------
(* A checker over the default cardinal rule set, asked about every         *)
(* artifact type and operation at every strength                           *)

DefaultsInit ==
    /\ resolve_fn = FALSE /\ store = StoreEmpty
    /\ cache = EmptyCache
    /\ superseded_by = EmptyIndex
    /\ resolved = NoneResolved
    /\ calls = 0
    /\ last = Call("init", NoSaid, NoAid, "", <<>>, <<>>, "", "")
    /\ ruleset = default_cardinal_rules
    /\ checked = NotChecked
    /\ callers = NoCallers

DefaultsNext ==
    \E t \in ArtifactType, o \in Operation, a \in StrengthLevels :
        DoCheck(t, o, a)

DefaultsSpec == DefaultsInit /\ [][DefaultsNext]_vars

-----------------------------------------------------------------------------
(* The constraint checker over the rule list of one framework; ruleset     *)
(* holds the list, checked the last evaluation                             *)

MaxRules == 2

EdgeTypes == {"e1", "e2"}

Enforcements == {"STRICT", "ADVISORY"}

\* what a rule asks for: an operator, a bounded delegation depth, or a field
Requirements ==
    {[k |-> "o", required_operator |-> "I2I", field_constraints |-> {},
      max_delegation_depth |-> None(0)],
     [k |-> "d", required_operator |-> "ANY", field_constraints |-> {},
      max_delegation_depth |-> Some(0)],
     [k |-> "f", required_operator |-> "ANY", field_constraints |-> {"f"},
      max_delegation_depth |-> None(0)]}

\* the rules a framework may carry, each with a name of its own
ConstraintRules ==
    {ConstraintRule(<<t, q.k, e>>, t, q.required_operator, q.field_constraints,
                    q.max_delegation_depth, e) :
        t \in EdgeTypes, q \in Requirements, e \in Enforcements}

\* rule lists of up to MaxRules rules, names unique within a list
RuleLists ==
    UNION {{l \in [1..n -> ConstraintRules] :
                \A i \in 1..n, j \in 1..n : l[i] = l[j] => i = j} :
           n \in 0..MaxRules}

\* the edge types, declared operators, attributes and depths checks are
\* asked about
EdgeContexts ==
    {EdgeContext(t, o, a, d) :
        t \in EdgeTypes \cup {"e3"}, o \in {"NI2I", "I2I"},
        a \in {{}, {"f"}}, d \in {None(0), Some(0), Some(1)}}

ConstraintInit ==
    /\ resolve_fn = FALSE /\ store = StoreEmpty
    /\ cache = EmptyCache
    /\ superseded_by = EmptyIndex
    /\ resolved = NoneResolved
    /\ calls = 0
    /\ last = Call("init", NoSaid, NoAid, "", <<>>, <<>>, "", "")
    /\ ruleset \in RuleLists
    /\ checked = NotChecked
    /\ callers = NoCallers

DoCheckEdge(context) ==
    /\ checked' = [op |-> "check_edge", context |-> context,
                   result |-> CheckEdge(ruleset, context)]
    /\ UNCHANGED <<resolve_fn, store, cache, superseded_by, resolved, calls,
                   last, ruleset, callers>>

ConstraintNext == \E context \in EdgeContexts : DoCheckEdge(context)

ConstraintSpec == ConstraintInit /\ [][ConstraintNext]_vars

-----------------------------------------------------------------------------
(* One lineage grown by the evolution engine: a resolver without a fetch   *)
(* callback holding a registered root, evolved in either mode from any     *)
(* version it holds, and queried                                           *)

\* the roots: with a steward, and without one
Roots == {Fw(SaidA, "s1", NoSaid), Fw(SaidA, NoAid, NoSaid)}

LineageInit ==
    \E framework \in Roots :
        Registering(framework, Register(St(EmptyCache, EmptyIndex), framework))

LineageNext ==
    \/ \E s \in DOMAIN cache, a \in Aids, new \in {Inherit, Renamed} :
        DoSupersede(DefaultFactory, s, a, new)
    \/ \E s \in DOMAIN cache : DoSupersede(Injected(SaidB), s, "s1", Inherit)
    \/ \E s \in DOMAIN cache, a \in Aids :
        DoEvolveFromRatification(DefaultFactory, s, SaidR, Proposer(a))
    \/ \E s \in DOMAIN cache : DoResolveChain(s)
    \/ \E s \in DOMAIN cache : DoResolveActive(s)

LineageSpec == LineageInit /\ [][LineageNext]_vars

-----------------------------------------------------------------------------
(* Two callers inside the evolution engine at the same time, over one      *)
(* resolver holding a registered root. A call is taken apart into the      *)
(* steps that read or write the resolver: resolving the current framework  *)
(* (the checks and the new framework follow from what was read), the two   *)
(* writes of register, the write of register_supersession, the return.     *)

Callers == {"p1", "p2"}

SupersedeRequest(current_said, steward_aid, new) ==
    [op |-> "supersede", current_said |-> current_said, aid |-> steward_aid,
     input |-> [factory |-> DefaultFactory, new |-> new]]

RatificationRequest(current_said, ratification_said, data) ==
    [op |-> "evolve_from_ratification", current_said |-> current_said,
     aid |-> data.proposer_aid,
     input |-> [factory |-> DefaultFactory,
                ratification_said |-> ratification_said, data |-> data]]

Requests ==
    {SupersedeRequest(SaidA, "s1", Inherit),
     SupersedeRequest(SaidA, "s1", Renamed),
     SupersedeRequest(SaidA, "s2", Inherit),
     SupersedeRequest(SaidB, "s1", Inherit),
     RatificationRequest(SaidA, SaidR, Proposer("s2"))}

\* the call a request stands for, made on the resolver state `st`
Evolve(st, request) ==
    IF request.op = "supersede"
    THEN Supersede(st, request.input.factory, request.current_said,
                   request.aid, request.input.new)
    ELSE EvolveFromRatification(st, request.input.factory,
                                request.current_said,
                                request.input.ratification_said,
                                request.input.data)

\* a caller: its request, where it is, the EvolutionResult it is going to
\* return, and its turn among the callers in entering (began) and in writing
\* the supersession edge (wrote)
Caller(request, pc, result, began, wrote) ==
    [request |-> request, pc |-> pc, result |-> result, began |-> began,
     wrote |-> wrote]

NoResult == Evolved(St(EmptyCache, EmptyIndex), FALSE, NoFw, NoSaid, "", NoReason, <<>>, FALSE)

\* the turn after those of the callers that have taken one of `turns`
NextTurn(turns) == 1 + Cardinality({q \in DOMAIN turns : turns[q] > 0})

Began == [q \in Callers |-> callers[q].began]

Wrote == [q \in Callers |-> callers[q].wrote]

\* the result of the call, the resolver state it would leave taken out
Local(e) == [e EXCEPT !.st = St(EmptyCache, EmptyIndex)]

ConcurrentInit ==
    /\ resolve_fn = FALSE /\ store = StoreEmpty
    /\ \E framework \in Roots :
        /\ cache = Register(St(EmptyCache, EmptyIndex), framework).cache
        /\ superseded_by = Register(St(EmptyCache, EmptyIndex), framework).sb
        /\ last = Call("register", framework.said, NoAid, "ok", <<framework>>,
                       <<>>, "", "")
    /\ resolved = NoneResolved
    /\ calls = 0
    /\ ruleset = NoRules
    /\ checked = NotChecked
    /\ callers \in [Callers -> {Caller(request, "resolve", NoResult, 0, 0) :
                                    request \in Requests}]

Stepped(p, caller) ==
    /\ callers' = [callers EXCEPT ![p] = caller]
    /\ UNCHANGED <<resolve_fn, store, resolved, calls, ruleset, checked>>

\* current = self._resolver.resolve(current_said), the checks on it, and
\* the new framework built from it
Resolving(p, e) ==
    /\ callers[p].pc = "resolve"
    /\ Stepped(p, Caller(callers[p].request,
                         IF e.success THEN "cache" ELSE "return",
                         Local(e), NextTurn(Began), 0))
    /\ UNCHANGED <<cache, superseded_by, last>>

DoResolveCurrent(p) == Resolving(p, Evolve(Now, callers[p].request))

\* register: self._cache[framework.said] = framework
DoRegisterCache(p) ==
    /\ callers[p].pc = "cache"
    /\ cache' = Put(cache, callers[p].result.new_framework.said,
                    callers[p].result.new_framework)
    /\ Stepped(p, [callers[p] EXCEPT !.pc = "index"])
    /\ UNCHANGED <<superseded_by, last>>

\* register: self._superseded_by[framework.supersedes] = framework.said
DoRegisterIndex(p) ==
    /\ callers[p].pc = "index"
    /\ superseded_by' =
        IF callers[p].result.new_framework.supersedes # NoSaid
        THEN Put(superseded_by, callers[p].result.new_framework.supersedes,
                 callers[p].result.new_framework.said)
        ELSE superseded_by
    /\ Stepped(p, [callers[p] EXCEPT !.pc = "edge"])
    /\ UNCHANGED <<cache, last>>

\* self._resolver.register_supersession(new_said, current_said)
DoRegisterEdge(p) ==
    /\ callers[p].pc = "edge"
    /\ superseded_by' =
        RegisterSupersession(Now, callers[p].result.new_framework.said,
                             callers[p].request.current_said).sb
    /\ Stepped(p, [callers[p] EXCEPT !.pc = "return", !.wrote = NextTurn(Wrote)])
    /\ UNCHANGED <<cache, last>>

\* return EvolutionResult(...)
DoReturn(p) ==
    /\ callers[p].pc = "return"
    /\ last' = EvolutionCall(callers[p].request.op,
                             callers[p].request.current_said,
                             callers[p].request.aid, callers[p].request.input,
                             callers[p].result)
    /\ Stepped(p, [callers[p] EXCEPT !.pc = "done"])
    /\ UNCHANGED <<cache, superseded_by>>

ConcurrentNext ==
    \/ \E p \in Callers : DoResolveCurrent(p)
    \/ \E p \in Callers : DoRegisterCache(p)
    \/ \E p \in Callers : DoRegisterIndex(p)
    \/ \E p \in Callers : DoRegisterEdge(p)
    \/ \E p \in Callers : DoReturn(p)

ConcurrentSpec == ConcurrentInit /\ [][ConcurrentNext]_vars





----------------------------------------------------------------------------
(* Properties of the resolver: chains *)

CBA == <<SaidC, SaidB, SaidA>>

\* the three lineage versions, as resolve returns them
IsLineage(a, b, c) ==
    /\ a # NoFw /\ a.said = SaidA /\ a.supersedes = NoSaid
    /\ b # NoFw /\ b.said = SaidB /\ b.supersedes = SaidA
    /\ c # NoFw /\ c.said = SaidC /\ c.supersedes = SaidB

\* every lineage version is registered or can be fetched
LineageResolvable ==
    IsLineage(Resolve(Now, SaidA).ret, Resolve(Now, SaidB).ret,
              Resolve(Now, SaidC).ret)

\* every lineage version is in the cache and the forward index holds the
\* lineage's edges and no edge out of C
LineageCached ==
    /\ {SaidA, SaidB, SaidC} \subseteq DOMAIN cache
    /\ IsLineage(cache[SaidA], cache[SaidB], cache[SaidC])
    /\ {SaidA, SaidB} \subseteq DOMAIN superseded_by
    /\ superseded_by[SaidA] = SaidB
    /\ superseded_by[SaidB] = SaidC
    /\ SaidC \notin DOMAIN superseded_by

IsCBA(c) ==
    /\ ~c.raised /\ ~c.diverged
    /\ Saids(c.versions) = CBA
    /\ Active(c.versions).said = SaidC

C2_ResolveChainReturns ==
    last.op = "resolve_chain" => last.status # "diverged"

NoDuplicates(seq) ==
    \A i, j \in 1..Len(seq) : seq[i] = seq[j] => i = j

\* C3: in every reachable resolver state, no SAID occurs twice in the chain
\* that resolve_chain returns for any SAID
C3_NoSaidTwice ==
    \A s \in KnownSaids : NoDuplicates(Saids(ResolveChain(Now, s).versions))

EdgesMatch(versions) ==
    \A i \in 1..(Len(versions) - 1) :
        versions[i].supersedes = versions[i + 1].said

\* every cached framework is cached under its own SAID
OwnSaids == \A s \in DOMAIN cache : cache[s].said = s

\* C4: in a chain that resolve_chain returns, the supersedes field of every
\* element but the last is the SAID of the next element, also after
\* register_supersession calls and re-registrations (stated for resolvers
\* whose frameworks are all cached under their own SAIDs)
C4_EachSupersedesNext ==
    (last.op = "resolve_chain" /\ OwnSaids) => EdgesMatch(last.ret)

----------------------------------------------------------------------------
(* Properties of the resolver: resolve *)

SameAnswer(r1, r2) == r2.ret = r1.ret /\ r2.fetched = <<>>

\* resolve(s) and again resolve(s)
TwiceSame(s, r1) ==
    (~r1.raised /\ r1.ret # NoFw) => SameAnswer(r1, Resolve(r1.st, s))

\* C5: a resolve that succeeds is answered the same by the resolve that
\* follows it, and a SAID that resolve has returned a framework for is not
\* fetched again while no clear_cache intervenes
C5_ResolveTwice ==
    /\ \A s \in KnownSaids : TwiceSame(s, Resolve(Now, s))
    /\ \A s \in DOMAIN resolved : Resolve(Now, s).fetched = <<>>
    /\ (last.op = "resolve" /\ last.arg \in DOMAIN resolved
        /\ resolved[last.arg].again) => last.fetched = <<>>

\* a SAID first resolved through the fetch callback has been resolved again
C5_Witness ==
    /\ last.op = "resolve" /\ last.status = "ok" /\ last.fetched = <<>>
    /\ last.arg \in DOMAIN resolved /\ resolved[last.arg].again
    /\ resolve_fn /\ last.arg \in NamedSaids
    /\ last.ret = <<FromCredential(store[last.arg])>>

\* C6: once resolve(s) has returned a framework, resolve(s) returns an equal
\* framework in every later state of the resolver
C6_ResolveStable ==
    \A s \in DOMAIN resolved : Resolve(Now, s).ret = resolved[s].fw

\* C7: resolve never raises
C7_ResolveNeverRaises ==
    last.op = "resolve" => last.status # "raised"

----------------------------------------------------------------------------
(* Properties of the evolution engine *)

StewardDiffers(current, steward_aid) ==
    current # NoFw /\ current.steward # NoAid /\ current.steward # steward_aid

\* the SAIDs of the lineage of s, as resolve_chain reports it
LineageOf(st, s) ==
    {s} \cup {v.said : v \in {ResolveChain(st, s).versions[i] :
                               i \in 1..Len(ResolveChain(st, s).versions)}}

SameActive(pre, post, s) ==
    \A x \in LineageOf(post, s) :
        ResolveActive(post, x).ret = ResolveActive(pre, x).ret

\* what the caller sees of a refused supersede
Refused(call) == call.status = "failed" /\ call.mode = "A" /\ call.ret = <<>>

CurrentOf(s) ==
    IF s \in DOMAIN cache THEN cache[s]
    ELSE IF resolve_fn /\ store[s].kind = "value" /\ RawIsDict(store[s])
            /\ store[s].parse = "ok"
    THEN store[s].fw
    ELSE NoFw

MaySupersede(s, steward_aid) ==
    /\ CurrentOf(s) # NoFw
    /\ CurrentOf(s).steward = NoAid \/ CurrentOf(s).steward = steward_aid

Range(f) == {f[x] : x \in DOMAIN f}

Unknown(s) ==
    /\ s \notin DOMAIN cache
    /\ s \notin DOMAIN superseded_by
    /\ s \notin Range(superseded_by)

\* what holds of the resolver after an evolution that made new_framework
Installed(post, current_said, new_framework) ==
    /\ Resolve(post, new_framework.said).ret = new_framework
    /\ new_framework.supersedes = current_said
    /\ current_said \in DOMAIN post.sb
    /\ post.sb[current_said] = new_framework.said
    /\ ResolveActive(post, current_said).ret = new_framework

\* C10: after a supersede or evolve_from_ratification that succeeds with a
\* SAID the resolver did not know, resolve of the new SAID returns the new
\* framework, its supersedes is current_said, the forward index maps
\* current_said to the new SAID, and resolve_active(current_said) returns
\* the new framework
C10_NewVersionInstalled ==
    [][(last'.op \in {"supersede", "evolve_from_ratification"}
        /\ last'.status = "ok" /\ Unknown(last'.ret[1].said))
       => Installed(St(cache', superseded_by'), last'.arg, last'.ret[1])]_vars

----------------------------------------------------------------------------
(* Properties of the evolution engine: the content of the new version *)

Evolutions == {"supersede", "evolve_from_ratification"}

Parsed(opt) == IF opt.some THEN Some(FromDicts(opt.val)) ELSE opt

\* the values the caller of an evolution call supplied, as the framework
\* would hold them
Given(call) ==
    IF call.op = "supersede"
    THEN [name |-> call.input.new.new_name,
          version |-> call.input.new.new_version,
          rules |-> call.input.new.new_rules,
          matrix |-> call.input.new.new_matrix,
          authorities |-> call.input.new.new_authorities]
    ELSE [name |-> call.input.data.proposed_name,
          version |-> call.input.data.proposed_version,
          rules |-> Parsed(call.input.data.proposed_rules),
          matrix |-> Parsed(call.input.data.proposed_matrix),
          authorities |-> call.input.data.proposed_authorities]

Chosen(opt, inherited) == IF opt.some THEN opt.val ELSE inherited

InheritsFrom(new_framework, given, current) ==
    /\ new_framework.name = Chosen(given.name, current.name)
    /\ new_framework.rules = Chosen(given.rules, current.rules)
    /\ new_framework.credential_matrix
           = Chosen(given.matrix, current.credential_matrix)
    /\ new_framework.authorities = Chosen(given.authorities, current.authorities)

\* C11: in both modes, name, rules, credential matrix and authorities of the
\* new framework are each the value the caller supplied, also an empty one,
\* and the current framework's value when none was supplied
C11_SuppliedOrInherited ==
    [][(last'.op \in Evolutions /\ last'.status = "ok")
       => InheritsFrom(last'.ret[1], Given(last'), Resolve(Now, last'.arg).ret)]_vars

\* Mode B was given an empty rule list, and no name, for a framework that
\* has rules
C11_Witness ==
    /\ last.status = "ok"
    /\ last.arg \in DOMAIN cache
    /\ last.op = "evolve_from_ratification"
    /\ last.input.data.proposed_rules = Some(<<>>)
    /\ cache[last.arg].rules # <<>>
    /\ last.ret[1].rules = <<>>
    /\ last.ret[1].name = cache[last.arg].name

\* an integer numeral: digits, after an optional sign
IsNumeral(part) ==
    /\ Len(part) > 0
    /\ IF part[1] \in {"+", "-"}
       THEN Len(part) > 1 /\ \A i \in 2..Len(part) : IsDigit(part[i])
       ELSE \A i \in 1..Len(part) : IsDigit(part[i])

NumeralVal(part) ==
    IF part[1] = "-" THEN 0 - DigitsVal(Tail(part))
    ELSE IF part[1] = "+" THEN DigitsVal(Tail(part))
    ELSE DigitsVal(part)

\* MAJOR.MINOR.PATCH with three integer components
IsMajorMinorPatch(parts) ==
    Len(parts) = 3 /\ \A i \in 1..3 : IsNumeral(parts[i])

MinorBumped(parts) ==
    IF IsMajorMinorPatch(parts)
    THEN IntToStr(NumeralVal(parts[1])) \o <<".">>
         \o IntToStr(NumeralVal(parts[2]) + 1) \o <<".", "0">>
    ELSE V110

\* C12: when no new version is given, the new framework's version is
\* MAJOR.(MINOR+1).0 for a current version MAJOR.MINOR.PATCH of three
\* integers and "1.1.0" for every other current version string, in both modes
C12_MinorBumpOrFallback ==
    (last.op \in Evolutions /\ last.status = "ok" /\ last.arg \in DOMAIN cache
     /\ ~Given(last).version.some)
        => last.ret[1].version = MinorBumped(Split(cache[last.arg].version))

----------------------------------------------------------------------------
(* Properties of the evolution engine: refusals *)

\* between two resolver states nothing was registered: the cache gained at
\* most the framework found under s, with the edge that framework declares
NothingRegistered(pre, post, s) ==
    /\ DOMAIN post.cache \subseteq DOMAIN pre.cache \cup {s}
    /\ \A k \in DOMAIN pre.cache : post.cache[k] = pre.cache[k]
    /\ \A k \in DOMAIN post.sb :
        \/ k \in DOMAIN pre.sb /\ post.sb[k] = pre.sb[k]
        \/ /\ s \in DOMAIN post.cache /\ s \notin DOMAIN pre.cache
           /\ k = post.cache[s].supersedes
           /\ post.sb[k] = post.cache[s].said

\* an evolution call failed for the missing proposer_aid
NamesProposerAid(call) ==
    /\ call.status = "failed" /\ call.ret = <<>>
    /\ call.reason.kind = "missing" /\ call.reason.text = "proposer_aid"

\* C13 as stated: evolve_from_ratification with ratification_data that has
\* no proposer_aid, or an empty one, fails with a reason that names
\* proposer_aid and registers nothing (stated for the calls that return)
C13_NoProposerFailsNamingIt ==
    [][(last'.op = "evolve_from_ratification" /\ last'.aid = NoAid
        /\ last'.status # "raised")
       => (NamesProposerAid(last')
           /\ NothingRegistered(Now, St(cache', superseded_by'), last'.arg))]_vars

\* C13, amended: the same, for a current_said that resolves to a framework
C13_NoProposerOfResolvedFailsNamingIt ==
    [][(last'.op = "evolve_from_ratification" /\ last'.aid = NoAid
        /\ Resolve(Now, last'.arg).ret # NoFw)
       => (NamesProposerAid(last')
           /\ NothingRegistered(Now, St(cache', superseded_by'), last'.arg))]_vars

\* evolve_from_ratification fetched the current framework and then refused
\* the call for its missing proposer_aid
C13_Witness ==
    /\ last.op = "evolve_from_ratification" /\ last.aid = NoAid
    /\ last.fetched = <<last.arg>>
    /\ last.arg \in DOMAIN cache
    /\ NamesProposerAid(last)

\* C14: evolve_from_ratification compares no steward: for a current_said
\* that resolves and a non-empty proposer_aid it succeeds, whatever steward
\* the current framework records, and the new framework's steward is
\* proposer_aid
C14_ModeBIgnoresSteward ==
    [][(last'.op = "evolve_from_ratification" /\ last'.aid # NoAid
        /\ Resolve(Now, last'.arg).ret # NoFw)
       => (last'.status = "ok" /\ last'.ret[1].steward = last'.aid)]_vars

\* evolve_from_ratification succeeded for a proposer that is not the
\* steward the current framework records
C14_Witness ==
    /\ last.op = "evolve_from_ratification" /\ last.status = "ok"
    /\ last.arg \in DOMAIN cache
    /\ cache[last.arg].steward \notin {NoAid, last.aid}
    /\ last.ret[1].steward = last.aid

\* C15: evolve_from_ratification called with an empty ratification_said
\* produces and registers no new framework version
C15_NeedsRatificationSaid ==
    (last.op = "evolve_from_ratification"
     /\ last.input.ratification_said = NoSaid)
        => (last.status # "ok" /\ last.ret = <<>>)

\* C16: when current_said does not resolve, supersede and
\* evolve_from_ratification return a failed result with no new framework
\* and a reason saying the current framework was not found, without
\* raising, and leave the cache and the forward index as they were
C16_NotFoundFailsQuietly ==
    [][(last'.op \in Evolutions /\ Resolve(Now, last'.arg).ret = NoFw)
       => (/\ last'.status = "failed" /\ last'.ret = <<>>
           /\ last'.reason.kind = "not found"
           /\ cache' = cache /\ superseded_by' = superseded_by)]_vars

ModeOf(op) == IF op = "supersede" THEN "A" ELSE "B"

\* C17: every EvolutionResult of supersede has mode "A" and every one of
\* evolve_from_ratification mode "B"; in every result prior_said is the
\* current_said the caller passed, and new_framework is present exactly
\* when success is true
C17_ResultFields ==
    (last.op \in Evolutions /\ last.status # "raised")
        => (/\ last.mode = ModeOf(last.op)
            /\ last.prior = last.arg
            /\ (last.ret # <<>>) <=> (last.status = "ok"))

-----------------------------------------------------------------------------
(* Claims about the primitives and the cardinal rules engine *)

\* the two ladders, weakest first
OperatorLadder == <<"ANY", "NI2I", "DI2I", "I2I">>

StrengthLadder == <<"ANY", "SAID_ONLY", "KEL_ANCHORED", "TEL_ANCHORED">>

Rank(ladder, x) == CHOOSE i \in DOMAIN ladder : ladder[i] = x

StrengthRank(level) == Rank(StrengthLadder, StrengthLevelName(level))

\* a relation over a set of values is a partial order with top and bottom
Reflexive(S, R(_, _)) == \A a \in S : R(a, a)

Transitive(S, R(_, _)) ==
    \A a \in S, b \in S, c \in S : (R(a, b) /\ R(b, c)) => R(a, c)

Antisymmetric(S, R(_, _)) ==
    \A a \in S, b \in S : (R(a, b) /\ R(b, a)) => a = b

TopAndBottom(S, R(_, _), top, bottom) ==
    \A r \in S : R(top, r) /\ (R(bottom, r) <=> r = bottom)

\* C18: operator_satisfies(actual, required) is true exactly when actual
\* ranks at least as high as required on I2I > DI2I > NI2I > ANY, and
\* strength_satisfies likewise on TEL_ANCHORED > KEL_ANCHORED > SAID_ONLY >
\* ANY; both relations are reflexive, transitive and antisymmetric, I2I and
\* TEL_ANCHORED satisfy every requirement, ANY satisfies only ANY
C18_SatisfiesIsRankOrder ==
    /\ checked.op = "operator_satisfies"
        => /\ checked.result = (Rank(OperatorLadder, checked.actual)
                                >= Rank(OperatorLadder, checked.required))
           /\ Reflexive(EdgeOperator, operator_satisfies)
           /\ Transitive(EdgeOperator, operator_satisfies)
           /\ Antisymmetric(EdgeOperator, operator_satisfies)
           /\ TopAndBottom(EdgeOperator, operator_satisfies, "I2I", "ANY")
    /\ checked.op = "strength_satisfies"
        => /\ checked.result = (StrengthRank(checked.actual)
                                >= StrengthRank(checked.required))
           /\ Reflexive(StrengthLevels, strength_satisfies)
           /\ Transitive(StrengthLevels, strength_satisfies)
           /\ Antisymmetric(StrengthLevels, strength_satisfies)
           /\ TopAndBottom(StrengthLevels, strength_satisfies,
                           StrengthLevel.TEL_ANCHORED, StrengthLevel.ANY)

\* a delegated operator was accepted where a non-issuer one was required
C18_Witness ==
    /\ checked.op = "operator_satisfies"
    /\ checked.actual = "DI2I" /\ checked.required = "NI2I"
    /\ checked.result = TRUE

Names(message) == {message[i] : i \in DOMAIN message}

\* C19: check returns allowed with no rule attached when the rule set has
\* no rule for (type, operation); otherwise it returns that rule, allowed
\* exactly when the actual strength is at least the rule's minimum, and a
\* denial's message names the required and the actual strength
C19_CheckAgainstRule ==
    checked.op = "check" =>
        IF <<checked.artifact_type, checked.operation>> \notin DOMAIN ruleset
        THEN checked.result.allowed /\ checked.result.rule = <<>>
        ELSE /\ checked.result.rule
                    = <<ruleset[<<checked.artifact_type, checked.operation>>]>>
             /\ checked.result.allowed
                    <=> (StrengthRank(checked.actual)
                         >= StrengthRank(checked.result.rule[1].min_strength))
             /\ ~checked.result.allowed
                    => {StrengthLevelName(checked.result.rule[1].min_strength),
                        StrengthLevelName(checked.actual)}
                            \subseteq Names(checked.result.message)

\* a check was denied by one of several rules: content integrity was offered
\* where a full credential chain is the minimum
C19_Witness ==
    /\ checked.op = "check" /\ ~checked.result.allowed
    /\ checked.result.rule # <<>>
    /\ checked.result.rule[1].min_strength = StrengthLevel.TEL_ANCHORED
    /\ checked.actual = StrengthLevel.SAID_ONLY
    /\ Len_(ruleset) > 1

Stronger(level) == {l \in StrengthLevels : l > level}

\* C20: whatever rules were added, for every type and operation, a check
\* that allows at one strength allows at every stronger strength
C20_AllowedAtEveryStrongerStrength ==
    (checked.op = "check" /\ checked.result.allowed)
        => \A l \in Stronger(checked.actual) :
              Check(ruleset, checked.artifact_type, checked.operation, l).allowed

\* a governed operation was allowed at exactly its minimum, below the top
C20_Witness ==
    /\ checked.op = "check" /\ checked.result.allowed
    /\ checked.result.rule # <<>>
    /\ checked.result.rule[1].min_strength = checked.actual
    /\ checked.actual = StrengthLevel.KEL_ANCHORED

OnePerPair(rules) ==
    \A r1 \in AllRules(rules), r2 \in AllRules(rules) :
        (r1.artifact_type = r2.artifact_type /\ r1.operation = r2.operation)
            => r1 = r2

Governed(rules) ==
    {<<t, o>> \in ArtifactType \X Operation : Get(rules, t, o) # NoRule}

Added(rule) == <<rule.artifact_type, rule.operation>>

\* C21: after any sequence of add calls the set holds at most one rule per
\* (artifact_type, operation) pair; get returns the rule added last for its
\* pair; len is the number of distinct pairs added, so adding for a pair
\* already present leaves len unchanged and adding for a new pair adds one;
\* the rules of all other pairs are unaffected
C21_OneRulePerPair ==
    [][checked'.op = "add" =>
        /\ OnePerPair(ruleset')
        /\ Get(ruleset', checked'.rule.artifact_type, checked'.rule.operation)
                = <<checked'.rule>>
        /\ Governed(ruleset') = Governed(ruleset) \cup {Added(checked'.rule)}
        /\ Len_(ruleset') = Cardinality(Governed(ruleset'))
        /\ Added(checked'.rule) \in Governed(ruleset)
                => Len_(ruleset') = Len_(ruleset)
        /\ \A t \in ArtifactType, o \in Operation :
                <<t, o>> # Added(checked'.rule)
                    => Get(ruleset', t, o) = Get(ruleset, t, o)]_vars

\* a rule replaced a different rule of its pair while another pair was
\* governed
C21_Witness ==
    /\ checked.op = "add"
    /\ checked.before # NoRule
    /\ checked.before[1].min_strength # checked.rule.min_strength
    /\ checked.len = 2

AllowedFrom(level) ==
    checked.result.allowed
        <=> (StrengthRank(checked.actual) >= Rank(StrengthLadder, level))

-----------------------------------------------------------------------------
(* Claims about the constraint checker *)

\* positions of the rules that apply to the checked edge and fail
Failing(enforcements) ==
    {i \in DOMAIN ruleset :
        /\ ruleset[i].applies_to = checked.context.edge_type
        /\ RuleFails(ruleset[i], checked.context)
        /\ ruleset[i].enforcement \in enforcements}

Violated == {checked.result.violations[i].rule :
                i \in DOMAIN checked.result.violations}

-----------------------------------------------------------------------------
(* Claims about lineages grown by evolution *)

VersionsFrom(st, s) == ResolveChain(st, s).versions

\* `versions` is the whole content of the resolver, root last, and
\* resolve_chain returns it from the SAID of each of its versions
WholeLineage(st, versions) ==
    /\ Len(versions) = Cardinality(DOMAIN st.cache)
    /\ versions[Len(versions)].supersedes = NoSaid
    /\ \A i \in 1..Len(versions) :
        /\ versions[i].said \in DOMAIN st.cache
        /\ st.cache[versions[i].said] = versions[i]
        /\ VersionsFrom(st, versions[i].said) = versions

\* a successful evolution of the active head `versions[1]` that got a SAID
\* no version had
EvolvesHead(versions) ==
    /\ last'.op \in Evolutions /\ last'.status = "ok"
    /\ last'.arg = versions[1].said
    /\ last'.ret[1].said \notin DOMAIN cache

\* C24: after n successful evolutions, in any mix of modes, each of the
\* then-active head and each with a fresh SAID, resolve_chain from the SAID
\* of any version returns all n+1 versions, newest first and root last, and
\* the frameworks stored for the older versions are unchanged. (Stated as
\* the step from n to n+1; the registered root is the case n = 0.)
C24_LineageGrowsAtHead ==
    [][(/\ cache # EmptyCache
        /\ WholeLineage(Now, VersionsFrom(Now, last'.arg))
        /\ EvolvesHead(VersionsFrom(Now, last'.arg)))
       => /\ WholeLineage(St(cache', superseded_by'),
                          <<last'.ret[1]>> \o VersionsFrom(Now, last'.arg))
          /\ \A s \in DOMAIN cache : cache'[s] = cache[s]]_vars

\* two evolutions, the first by the steward and the second by ratification,
\* made a lineage of three that resolve_chain returns from its root
C24_Witness ==
    /\ last.op = "evolve_from_ratification" /\ last.status = "ok"
    /\ Len(VersionsFrom(Now, SaidA)) = 3
    /\ WholeLineage(Now, VersionsFrom(Now, SaidA))
    /\ VersionsFrom(Now, SaidA)[1] = last.ret[1]
    /\ VersionsFrom(Now, SaidA)[2].evolution_mode # "B"
    /\ VersionsFrom(Now, SaidA)[2].supersedes = SaidA
    /\ VersionsFrom(Now, SaidA)[3].said = SaidA

\* what the request would give on a resolver holding only the current root
Alone(request) == Evolve(Register(St(EmptyCache, EmptyIndex), cache[SaidA]), request)

\* both callers name the same current_said and, each on its own, succeed
\* with different content
Competing ==
    /\ callers # NoCallers
    /\ callers["p1"].request.current_said = callers["p2"].request.current_said
    /\ Alone(callers["p1"].request).success
    /\ Alone(callers["p2"].request).success
    /\ Alone(callers["p1"].request).new_framework
            # Alone(callers["p2"].request).new_framework

BothDone == \A p \in Callers : callers[p].pc = "done"

LastWriter == CHOOSE p \in Callers : callers[p].wrote = Cardinality(Callers)

\* C25: evolutions of one lineage are not serialized: two supersede or
\* evolve_from_ratification calls, interleaved or one after the other,
\* that name the same current_said and produce different content both
\* succeed, leaving two cached frameworks that supersede the same prior
\* SAID, while the forward index for that SAID keeps only the one whose
\* edge was registered last
C25_BothSucceedLastEdgeWins ==
    (Competing /\ BothDone) =>
        /\ \A p \in Callers :
            /\ callers[p].result.success
            /\ callers[p].result.new_framework.said \in DOMAIN cache
            /\ cache[callers[p].result.new_framework.said]
                    = callers[p].result.new_framework
            /\ callers[p].result.new_framework.supersedes
                    = callers[p].request.current_said
        /\ callers["p1"].result.new_framework.said
                # callers["p2"].result.new_framework.said
        /\ superseded_by[callers["p1"].request.current_said]
                = callers[LastWriter].result.new_framework.said

\* the steward's call began first and wrote its edge last, a ratified
\* evolution of the same version running in between
C25_Witness ==
    /\ Competing /\ BothDone
    /\ callers["p1"].request.op = "supersede"
    /\ callers["p2"].request.op = "evolve_from_ratification"
    /\ callers["p1"].began = 1 /\ callers["p1"].wrote = 2
    /\ superseded_by[SaidA] = callers["p1"].result.new_framework.said
    /\ callers["p2"].result.new_framework.said \in DOMAIN cache

\* the call just made is a supersede with the default credential factory
\* and the call before it was one with the same arguments
SupersedeRepeated ==
    /\ last'.op = "supersede" /\ last'.repeats
    /\ last'.input.factory = DefaultFactory

\* C26: with the default credential factory supersede is idempotent: a
\* second call with identical arguments against the same current framework
\* yields the same new SAID, and leaves the cache and the forward index as
\* they were after the first
C26_SupersedeTwiceSame ==
    [][SupersedeRepeated =>
        /\ last'.status = last.status
        /\ Saids(last'.ret) = Saids(last.ret)
        /\ cache' = cache /\ superseded_by' = superseded_by]_vars

\* a second successful supersede of a version gave the SAID the first gave
C26_Witness ==
    /\ last.op = "supersede" /\ last.repeats /\ last.status = "ok"
    /\ last.input.factory = DefaultFactory
    /\ Cardinality(DOMAIN cache) = 2
    /\ superseded_by[last.arg] = last.ret[1].said

\* resolve_active gives the same framework from x and from every SAID of
\* resolve_chain(x)
ActiveConsistentFrom(st, x) ==
    \A i \in 1..Len(VersionsFrom(st, x)) :
        ResolveActive(st, VersionsFrom(st, x)[i].said).ret
            = ResolveActive(st, x).ret

\* C27 as stated: in every resolver state reachable by resolve, register
\* and the two evolution operations, for every SAID s that appears in
\* resolve_chain(x), resolve_active(s) returns the same framework as
\* resolve_active(x)
C27_ActiveConsistent ==
    \A x \in DOMAIN cache : ActiveConsistentFrom(Now, x)

Root(versions) == versions[Len(versions)]

\* the root has a steward and every later version came from supersede
StewardedModeA(versions) ==
    /\ Len(versions) > 0
    /\ Root(versions).supersedes = NoSaid
    /\ Root(versions).steward # NoAid
    /\ \A i \in 1..(Len(versions) - 1) :
        versions[i].evolution_mode # "B" /\ versions[i].ratification = NoSaid

\* C29: in a lineage whose root has a recorded steward S and whose later
\* versions were all produced by successful supersede calls, every version
\* has steward S
C29_ModeAKeepsSteward ==
    \A x \in DOMAIN cache :
        StewardedModeA(VersionsFrom(Now, x))
            => \A i \in 1..Len(VersionsFrom(Now, x)) :
                VersionsFrom(Now, x)[i].steward
                    = Root(VersionsFrom(Now, x)).steward

\* the root's steward superseded the root and then the version that gave:
\* three versions, one steward
C29_Witness ==
    /\ last.op = "supersede" /\ last.status = "ok"
    /\ Len(VersionsFrom(Now, SaidA)) = 3
    /\ StewardedModeA(VersionsFrom(Now, SaidA))
    /\ VersionsFrom(Now, SaidA)[1] = last.ret[1]
    /\ last.ret[1].steward = cache[SaidA].steward

-----------------------------------------------------------------------------
(* Claims about repeated queries *)

\* the first of two resolve_chain calls and the second, made on the
\* resolver the first one left
SameChainAgain(first, second) ==
    (~first.raised /\ ~first.diverged)
        => /\ ~second.raised /\ ~second.diverged
           /\ Saids(second.versions) = Saids(first.versions)

ChainTwice(st, s) ==
    SameChainAgain(ResolveChain(st, s), ResolveChain(ResolveChain(st, s).st, s))

\* C28: two consecutive resolve_chain calls with the same SAID, nothing
\* else in between, return the same sequence of SAIDs, although the first
\* may fill the cache and write forward-index entries while walking
C28_ResolveChainTwiceSame == \A s \in KnownSaids : ChainTwice(Now, s)

\* what a resolver with a fetch callback asks it for when resolving an
\* uncached SAID
Consulted(s) == IF resolve_fn THEN <<s>> ELSE <<>>

\* C30: a resolve call that returns absent (no fetch callback, the fetch
\* returned nothing or a non-mapping, or the parse failed) leaves the cache
\* and the forward index exactly as they were, and the failure is not
\* remembered: a later resolve of the same SAID consults the fetch callback
\* again
C30_AbsentLeavesNoTrace ==
    [][(last'.op = "resolve" /\ last'.status = "none")
       => /\ cache' = cache /\ superseded_by' = superseded_by
          /\ last'.fetched = Consulted(last'.arg)
          /\ Resolve(St(cache', superseded_by'), last'.arg).fetched
                = Consulted(last'.arg)]_vars

\* a second resolve of a SAID whose credential does not parse asked the
\* fetch callback again
C30_Witness ==
    /\ last.op = "resolve" /\ last.repeats /\ last.status = "none"
    /\ resolve_fn /\ Fetch(last.arg).parse \in CaughtErrors
    /\ last.fetched = <<last.arg>>
    /\ cache = EmptyCache /\ superseded_by = EmptyIndex

====
